---------------------------- MODULE Spec2Model ----------------------------
(***************************************************************************)
(* Model of the Japanese-Chinese homograph analyzer (src/App.tsx and the   *)
(* geminiService part of src/components/StatsCard.tsx).                    *)
(*                                                                         *)
(* A JavaScript string is a sequence of UTF-16 code units; here a string   *)
(* is a sequence of naturals (the code units).  Offsets are the source's   *)
(* 0-based offsets: At(text, k) is text[k].                                *)
(***************************************************************************)
EXTENDS Integers, Sequences, FiniteSets, TLC

VARIABLES
    \* React state of App (src/App.tsx:44-59)
    status, errorMsg, data, stats, cnFiles, jpFiles,
    \* position of the processFiles run in flight, and its locals
    pc, cnText, jpText, cnSet, jpSet, intersection,
    \* the number of calls of processFiles that have not returned or thrown
    inFlight,
    \* the words analyzeHomographs put in its prompt, and what the gateway answered
    request, response,
    \* one call of findSentence: its arguments, its locals and its result
    text, word, index, start, end, sentence

appVars == <<status, errorMsg, data, stats, cnFiles, jpFiles>>
runVars == <<cnText, jpText, cnSet, jpSet, intersection>>
gwVars  == <<request, response>>
fnVars  == <<text, word, index, start, end, sentence>>
vars    == <<appVars, pc, inFlight, runVars, gwVars, fnVars>>

----------------------------------------------------------------------------
(* Bounds of the model                                                     *)

\* longest text of the exhaustive small-text families
MaxLen == 5
\* longest list of entries a gateway response carries
MaxResp == 2
\* the shared-word corpora hold BatchCap .. BatchCap + MaxExtra words
MaxExtra == 2
\* most words in a text of SpecIntersect
MaxWords == 3
\* a loop of the model makes at most 2^LoopDepth passes (the longest text
\* has fewer than 300 characters)
LoopDepth == 9

----------------------------------------------------------------------------
(* Program constants                                                       *)

\* CJK_REGEX = /[\u4E00-\u9FFF]{2,}/g
HanLo  == 19968
HanHi  == 40959
MinRun == 2
\* "steps < 100", "steps < 150"
BackCap == 100
FwdCap  == 150
\* wordList.slice(0, 50)
BatchCap == 50

----------------------------------------------------------------------------
(* Strings                                                                 *)

Range(s) == {s[k] : k \in 1..Len(s)}
Min(a, b) == IF a < b THEN a ELSE b
Max(a, b) == IF a > b THEN a ELSE b
Least(S) == CHOOSE x \in S : \A y \in S : x <= y
Greatest(S) == CHOOSE x \in S : \A y \in S : x >= y

\* text[k], k a 0-based offset
At(s, k) == s[k + 1]

\* The value a missing optional string has (no code unit is negative).
undefined == <<-1>>

\* A while loop: from state st, body is applied as long as cond holds.  The
\* loop runs by doubling, while(.., k) making at most 2^k passes, so that a
\* loop of a few hundred passes nests only k calls deep.
RECURSIVE while(_, _, _, _)
while(cond(_), body(_), st, k) ==
    IF ~cond(st) THEN st
    ELSE IF k = 0 THEN body(st)
    ELSE while(cond, body, while(cond, body, st, k - 1), k - 1)

\* String.prototype.substring(a, b): both ends clamped to 0..length, swapped
\* when a > b; the result is text[lo..hi-1].
substring(s, a, b) ==
    LET ca == Min(Max(a, 0), Len(s))
        cb == Min(Max(b, 0), Len(s))
    IN  SubSeq(s, Min(ca, cb) + 1, Max(ca, cb))

\* String.prototype.indexOf(word): the offsets are tried from 0 up; the
\* first where word occurs is the result, -1 if there is none.
indexOf(s, w) ==
    LET cond(i) == i + Len(w) <= Len(s) /\ SubSeq(s, i + 1, i + Len(w)) # w
        body(i) == i + 1
        i == while(cond, body, 0, LoopDepth)
    IN  IF i + Len(w) <= Len(s) THEN i ELSE -1

\* The characters \s matches and trim() strips (ECMAScript WhiteSpace and
\* LineTerminator).
IsSpace(c) ==
    \/ c \in {9, 10, 11, 12, 13, 32, 160, 5760, 8232, 8233, 8239, 8287, 12288, 65279}
    \/ (c >= 8192 /\ c <= 8202)

\* replace(/\s+/g, ' '): every maximal run of whitespace becomes one space:
\* the first character of a run is replaced by a space, the others dropped.
collapse(s) ==
    LET kept == SelectSeq([k \in 1..Len(s) |-> k],
                          LAMBDA k : ~(IsSpace(s[k]) /\ k > 1 /\ IsSpace(s[k - 1])))
    IN  [j \in 1..Len(kept) |-> IF IsSpace(s[kept[j]]) THEN 32 ELSE s[kept[j]]]

\* String.prototype.trim(): from the first to the last character that is
\* not whitespace
trim(s) ==
    LET solid == {k \in 1..Len(s) : ~IsSpace(s[k])}
    IN  IF solid = {} THEN <<>> ELSE SubSeq(s, Least(solid), Greatest(solid))

\* Array.prototype.join(sep) of an array of strings
join(texts, sep) ==
    LET cond(st) == st.k <= Len(texts)
        body(st) == [k |-> st.k + 1, out |-> st.out \o sep \o texts[st.k]]
    IN  IF texts = <<>> THEN <<>>
        ELSE while(cond, body, [k |-> 2, out |-> texts[1]], LoopDepth).out

\* (changed: the whole list)
sliceAll(list, n) == list

\* Array.prototype.slice(0, n)
slice(list, n) == SubSeq(list, 1, Min(n, Len(list)))

----------------------------------------------------------------------------
(* Candidate extraction and matching (processFiles, lines 99-107)          *)

\* the character class [\u4E00-\u9FFF]
IsHan(c) == c >= HanLo /\ c <= HanHi

\* The greedy quantifier: from offset p, the offset after the last Han
\* character of the run starting at p (p itself if text[p] is not Han).
runEnd(s, p) ==
    LET cond(q) == q < Len(s) /\ IsHan(At(s, q))
        body(q) == q + 1
    IN  while(cond, body, p, LoopDepth)

\* (changed: the quantifier + in place of {2,})
QuantifierOneOrMore(n) == n >= 1

\* {2,}: at least two characters make a match
Quantifier(n) == n >= MinRun

\* One step of the global match at offset st.p: it takes as many Han
\* characters as there are, keeps the match if the quantifier accepts their
\* number and goes on after it, and else moves on by one offset.
matchStep(s, st) ==
    LET q == runEnd(s, st.p)
    IN  IF Quantifier(q - st.p)
        THEN [p |-> q, matches |-> Append(st.matches, substring(s, st.p, q))]
        ELSE [p |-> st.p + 1, matches |-> st.matches]

\* text.match(CJK_REGEX) || []
match(s) ==
    LET cond(st) == st.p < Len(s)
        body(st) == matchStep(s, st)
    IN  while(cond, body, [p |-> 0, matches |-> <<>>], LoopDepth).matches

\* (changed: an array of the matches in place of a Set)
newSetKeepsAll(seq) == seq

\* new Set(matches), as the sequence of its members in iteration order
\* (insertion order: a value already in the set is not added again)
newSet(seq) ==
    LET cond(st) == st.k <= Len(seq)
        body(st) == [k |-> st.k + 1,
                     out |-> IF seq[st.k] \in Range(st.out) THEN st.out
                             ELSE Append(st.out, seq[st.k])]
    IN  while(cond, body, [k |-> 1, out |-> <<>>], LoopDepth).out

\* Set.prototype.has
has(set, w) == w \in Range(set)

\* (changed: b filtered by membership in a)
IntersectFilterB(a, b) == SelectSeq(b, LAMBDA w : has(a, w))

\* [...a].filter(word => b.has(word))
Intersect(a, b) == SelectSeq(a, LAMBDA w : has(b, w))

----------------------------------------------------------------------------
(* findSentence (lines 15-41)                                              *)

\* (changed: the fullwidth comma U+FF0C is a delimiter too)
delimitersWithComma == {12290, 65281, 65311, 10, 33, 63, 8230, 65292}

\* U+3002, U+FF01, U+FF1F, newline, '!', '?', U+2026
delimiters == {12290, 65281, 65311, 10, 33, 63, 8230}

\* (changed: steps <= 100) and (changed: no cap on the forward steps)
backCondOffByOne(s, st) ==
    st.pos > 0 /\ At(s, st.pos - 1) \notin delimiters /\ st.steps <= BackCap
fwdCondNoCap(s, st) ==
    st.pos < Len(s) /\ At(s, st.pos) \notin delimiters

\* the backward loop, lines 25-28, over [pos: start, steps]
backCond(s, st) ==
    st.pos > 0 /\ At(s, st.pos - 1) \notin delimiters /\ st.steps < BackCap

\* the forward loop, lines 34-37, over [pos: end, steps]
fwdCond(s, st) ==
    st.pos < Len(s) /\ At(s, st.pos) \notin delimiters /\ st.steps < FwdCap

backBody(st) == [pos |-> st.pos - 1, steps |-> st.steps + 1]
fwdBody(st) == [pos |-> st.pos + 1, steps |-> st.steps + 1]

\* the values of start and end after their loops, for the occurrence at i
findStart(s, i) ==
    while(LAMBDA st : backCond(s, st), backBody, [pos |-> i, steps |-> 0], LoopDepth).pos
findEnd(s, i) ==
    while(LAMBDA st : fwdCond(s, st), fwdBody, [pos |-> i, steps |-> 0], LoopDepth).pos

\* line 40
cleanUp(s) == trim(collapse(s))

\* (changed: an empty excerpt when the word is absent)
findSentenceOrEmpty(s, w) ==
    LET i == indexOf(s, w)
    IN  IF i = -1 THEN <<>>
        ELSE cleanUp(substring(s, findStart(s, i), findEnd(s, i) + 1))

findSentence(s, w) ==
    LET i == indexOf(s, w)
    IN  IF i = -1 THEN undefined
        ELSE cleanUp(substring(s, findStart(s, i), findEnd(s, i) + 1))

----------------------------------------------------------------------------
(* The state of App after construction (lines 44-59)                       *)

\* errorMsg: a message, or null
null == "null"
\* cnFiles, jpFiles: a FileList (the sequence of the files' texts), or null.
\* handleFileChange never stores an empty FileList, so <<>> stands for null.
noFiles == <<>>

noStats == [cnWordCount |-> 0, jpWordCount |-> 0,
            intersectionCount |-> 0, processedCount |-> 0]

\* no request made / no answer received in this run
noRequest  == [sent |-> FALSE, words |-> <<>>]
noResponse == [kind |-> "none", entries |-> <<>>, message |-> null]

InitApp ==
    /\ status = "IDLE"
    /\ errorMsg = null
    /\ data = <<>>
    /\ stats = noStats
    /\ cnFiles = noFiles
    /\ jpFiles = noFiles

InitRun ==
    /\ cnText = <<>>
    /\ jpText = <<>>
    /\ cnSet = <<>>
    /\ jpSet = <<>>
    /\ intersection = <<>>

InitGateway ==
    /\ request = noRequest
    /\ response = noResponse

InitFn ==
    /\ text = <<>>
    /\ word = <<>>
    /\ index = -1
    /\ start = -1
    /\ end = -1
    /\ sentence = undefined

----------------------------------------------------------------------------
(* Input families                                                          *)

\* all strings of at most n characters over an alphabet
StringsUpTo(n, alphabet) == UNION {[1..k -> alphabet] : k \in 0..n}

Rep(c, n) == [k \in 1..n |-> c]

\* the texts of the spec's examples
CnExample ==
    <<36825, 26159, 31185, 23398, 30740, 31350, 30340, 25163, 32440, 38382,
      39064, 65292, 31185, 23398, 24456, 37325, 35201, 12290>>
JpExample ==
    <<12371, 12428, 12399, 31185, 23398, 12398, 25163, 32025, 12398, 21839,
      38988, 12391, 12377, 12290, 31185, 23398, 12399, 37325, 35201, 12290>>
LocExample ==
    <<21069, 25991, 12290, 36825, 26159, 31185, 23398, 30740, 31350, 30340,
      25163, 32440, 38382, 39064, 65292, 31185, 23398, 24456, 37325, 35201,
      12290, 21518, 25991>>

\* U+79D1 U+5B66 (ke xue), U+5B66 U+751F (xue sheng), U+5148 U+751F (xian sheng)
Kexue == <<31185, 23398>>
Xuesheng == <<23398, 29983>>
Xiansheng == <<20808, 29983>>

\* the k-th of a family of distinct two-character Han words
Word(k) == <<HanLo + k, HanHi - k>>

\* Word(1) .. Word(n) in this order, the character sep between neighbours
WordList(n, sep) ==
    [k \in 1..(3 * n - 1) |->
        LET w == ((k - 1) \div 3) + 1
        IN  CASE (k - 1) % 3 = 0 -> Word(w)[1]
              [] (k - 1) % 3 = 1 -> Word(w)[2]
              [] OTHER -> sep]

\* Word(n) .. Word(1)
RevWordList(n, sep) ==
    [k \in 1..(3 * n - 1) |->
        LET w == n - ((k - 1) \div 3)
        IN  CASE (k - 1) % 3 = 0 -> Word(w)[1]
              [] (k - 1) % 3 = 1 -> Word(w)[2]
              [] OTHER -> sep]

\* a single Han character between two words, a word three times, a run on
\* each end of the text: U+5148 , xuesheng , xuesheng - xiansheng ! xuesheng
RunsExample ==
    <<20808, 65292>> \o Xuesheng \o <<12289>> \o Xuesheng \o <<45>>
        \o Xiansheng \o <<33>> \o Xuesheng

\* Extraction: every short string over the two ends of the Han block and
\* their two outer neighbours, and the longer examples.
ExtractTexts ==
    StringsUpTo(MaxLen, {HanLo, HanHi, HanLo - 1, HanHi + 1})
        \cup {CnExample, JpExample, LocExample, RunsExample,
              WordList(MaxLen, 65292)}

\* Matching: every text of at most MaxWords words out of three, two of
\* them parts of the third, with a fullwidth comma between neighbours.
WordPool == {Word(1), Word(2), Word(1) \o Word(2)}

WordTexts == {join(ws, <<65292>>) : ws \in StringsUpTo(MaxWords, WordPool)}

IsSet(seq) == \A i, j \in 1..Len(seq) : seq[i] = seq[j] => i = j

\* a Han run longer than the forward cap
LongWord == Rep(20013, FwdCap + 2)

\* Location: every short string over a Han character, a delimiter, a space
\* and a Latin letter; the spec's example; texts with the word further than
\* the caps from both ends, with and without a delimiter around it.
LongTexts ==
    {pre \o Rep(97, n) \o Kexue \o Rep(97, m) \o post :
        pre \in {<<>>, <<12290>>},
        n \in {BackCap - 1, BackCap, BackCap + 1},
        m \in {FwdCap - 3, FwdCap - 2, FwdCap - 1, FwdCap},
        post \in {<<>>, <<65311>>, <<65311, 32>> \o Kexue}}
    \cup {Rep(97, BackCap + 1) \o LongWord \o <<12290, 97>>}

LocateTexts ==
    StringsUpTo(MaxLen, {20013, 12290, 32, 97})
        \cup {LocExample, CnExample, JpExample}
        \cup LongTexts

LocateWords ==
    {<<>>, <<20013>>, <<20013, 20013>>, <<97>>, <<32>>, <<20013, 12290>>,
     <<97, 32, 32, 20013>>, Kexue, LongWord}

----------------------------------------------------------------------------
(* SpecExtract: lines 99 and 102 applied to one text                       *)

InitExtract ==
    /\ InitApp /\ InitGateway /\ InitFn
    /\ pc = "call"
    /\ inFlight = 0
    /\ cnText \in ExtractTexts
    /\ jpText = <<>>
    /\ cnSet = <<>>
    /\ jpSet = <<>>
    /\ intersection = <<>>

Extract ==
    /\ pc = "call"
    /\ cnSet' = newSet(match(cnText))
    /\ pc' = "return"
    /\ UNCHANGED <<appVars, inFlight, cnText, jpText, jpSet, intersection, gwVars, fnVars>>

NextExtract == Extract

SpecExtract == InitExtract /\ [][NextExtract]_vars

----------------------------------------------------------------------------
(* SpecIntersect: lines 99-107 applied to two texts                        *)

InitIntersect ==
    /\ InitApp /\ InitGateway /\ InitFn
    /\ pc = "call"
    /\ inFlight = 0
    /\ cnText \in WordTexts
    /\ jpText \in WordTexts
    /\ cnSet = <<>>
    /\ jpSet = <<>>
    /\ intersection = <<>>

Matcher ==
    /\ pc = "call"
    /\ LET a == newSet(match(cnText))
           b == newSet(match(jpText))
       IN  /\ cnSet' = a
           /\ jpSet' = b
           /\ intersection' = Intersect(a, b)
    /\ pc' = "return"
    /\ UNCHANGED <<appVars, inFlight, cnText, jpText, gwVars, fnVars>>

NextIntersect == Matcher

SpecIntersect == InitIntersect /\ [][NextIntersect]_vars

----------------------------------------------------------------------------
(* SpecLocate: one call of findSentence                                    *)

InitLocate ==
    /\ InitApp /\ InitRun /\ InitGateway
    /\ pc = "call"
    /\ inFlight = 0
    /\ text \in LocateTexts
    /\ word \in LocateWords
    /\ index = -1
    /\ start = -1
    /\ end = -1
    /\ sentence = undefined

Locate ==
    /\ pc = "call"
    /\ LET i == indexOf(text, word)
       IN  /\ index' = i
           /\ start' = IF i = -1 THEN -1 ELSE findStart(text, i)
           /\ end' = IF i = -1 THEN -1 ELSE findEnd(text, i)
    /\ sentence' = findSentence(text, word)
    /\ pc' = "return"
    /\ UNCHANGED <<appVars, inFlight, runVars, gwVars, text, word>>

NextLocate == Locate

SpecLocate == InitLocate /\ [][NextLocate]_vars

----------------------------------------------------------------------------
(* The application: App and analyzeHomographs                              *)

\* the messages setErrorMsg is given
NoIntersectionMsg == "no common kanji vocabulary found between the files"
GeminiErrorMsg    == "Failed to analyze vocabulary with Gemini."
DefaultErrorMsg   == "unexpected error"
ReadErrorMsg      == "the file could not be read"
TypeErrorMsg      == "TypeError"
NetworkErrorMsg   == "fetch failed"
SyntaxErrorMsg    == "SyntaxError"

\* HomographType, and a type outside it
HomographType == {"SAME", "RELATED", "DIFFERENT"}
OtherType == "UNKNOWN"

\* U+624B U+7D19 (tegami), a word of the Japanese texts only
Tegami == <<25163, 32025>>

\* The corpora a user can select: each a FileList, the sequence of its
\* files' texts.
CnSmall ==
    << <<20808, 29983, 12289, 23398, 29983, 12290, 31185, 23398, 65281>>,
       <<23398, 29983, 32, 25163, 32440>> >>
JpSmall ==
    << <<23398, 29983, 12392, 20808, 29983, 12398, 25163, 32025, 12290,
         31185, 23398>> >>
NoHanText == <<97, 98, 99, 44, 32, 100, 101, 102>>

CnCorpora ==
    {<<CnExample>>, CnSmall, <<NoHanText>>}
        \cup {<<WordList(BatchCap + e, 65292)>> : e \in 0..MaxExtra}
JpCorpora ==
    {<<JpExample>>, JpSmall, <<RevWordList(BatchCap + MaxExtra, 12290)>>}

\* readAllFiles (lines 74-79)
readAllFiles(files) == IF files = noFiles THEN <<>> ELSE join(files, <<10>>)

\* (changed: the empty intersection goes on to the gateway)
NoSharedWordsNever(list) == FALSE

\* intersection.length === 0 (line 116)
NoSharedWords(list) == Len(list) = 0

\* wordList.slice(0, 50) (StatsCard.tsx line 302)
wordsToAnalyze(wordList) == slice(wordList, BatchCap)

\* results.map(item => ({...item, source_cn_sentence, source_jp_sentence}))
\* (lines 129-133); of the gateway's fields an entry keeps its word and type.
\* cnSentence[w] and jpSentence[w] are findSentence(cnText, w) and
\* findSentence(jpText, w).
enrich(results, cnSentence, jpSentence) ==
    [k \in 1..Len(results) |->
        [word |-> results[k].word,
         type |-> results[k].type,
         source_cn_sentence |-> cnSentence[results[k].word],
         source_jp_sentence |-> jpSentence[results[k].word]]]

\* A run's locals and its exchange with the gateway exist from its start to
\* the next start or reset.
newRun ==
    /\ cnText' = <<>>
    /\ jpText' = <<>>
    /\ cnSet' = <<>>
    /\ jpSet' = <<>>
    /\ intersection' = <<>>
    /\ request' = noRequest
    /\ response' = noResponse

\* (changed: the upload section is rendered in every state but COMPLETE)
UploadShownUnlessComplete == status # "COMPLETE"

\* The file inputs and the start button are rendered only in these states
\* (line 171).
UploadShown == status \in {"IDLE", "ERROR"}

\* handleFileChange (lines 61-66) with a non-empty FileList
handleFileChange(lang, files) ==
    /\ UploadShown
    /\ IF lang = "CN"
       THEN cnFiles' = files /\ UNCHANGED jpFiles
       ELSE jpFiles' = files /\ UNCHANGED cnFiles
    /\ UNCHANGED <<status, errorMsg, data, stats, pc, inFlight, runVars, gwVars, fnVars>>

\* processFiles up to its first await (lines 81-92).  The button is disabled
\* while a corpus is missing (line 236), so the return of line 84 is not
\* taken.
processFiles ==
    /\ UploadShown
    /\ cnFiles # noFiles /\ jpFiles # noFiles
    /\ status' = "READING_FILES"
    /\ errorMsg' = null
    /\ pc' = "readAllFiles"
    /\ inFlight' = inFlight + 1
    /\ newRun
    /\ UNCHANGED <<data, stats, cnFiles, jpFiles, fnVars>>

\* processFiles from the texts' arrival to its return of line 119 or to the
\* await inside analyzeHomographs (lines 99-125, StatsCard.tsx 296-325).
\* analyzeHomographs is called with a non-empty list only.
filesRead ==
    /\ pc = "readAllFiles"
    /\ \E cn \in {readAllFiles(cnFiles)}, jp \in {readAllFiles(jpFiles)} :
       \E cnWords \in {newSet(match(cn))}, jpWords \in {newSet(match(jp))} :
       \E shared \in {Intersect(cnWords, jpWords)} :
           /\ cnText' = cn
           /\ jpText' = jp
           /\ cnSet' = cnWords
           /\ jpSet' = jpWords
           /\ intersection' = shared
           /\ stats' = [cnWordCount |-> Len(cnWords), jpWordCount |-> Len(jpWords),
                        intersectionCount |-> Len(shared), processedCount |-> 0]
           /\ IF NoSharedWords(shared)
              THEN /\ errorMsg' = NoIntersectionMsg
                   /\ status' = "IDLE"
                   /\ pc' = "returned"
                   /\ inFlight' = inFlight - 1
                   /\ UNCHANGED request
              ELSE /\ status' = "ANALYZING"
                   /\ request' = [sent |-> TRUE, words |-> wordsToAnalyze(shared)]
                   /\ pc' = "analyzeHomographs"
                   /\ UNCHANGED <<errorMsg, inFlight>>
    /\ UNCHANGED <<data, cnFiles, jpFiles, response, fnVars>>

\* a file's text() rejects: the catch of lines 139-143
filesReadFails ==
    /\ pc = "readAllFiles"
    /\ errorMsg' \in {ReadErrorMsg, DefaultErrorMsg}
    /\ status' = "ERROR"
    /\ pc' = "caught"
    /\ inFlight' = inFlight - 1
    /\ UNCHANGED <<data, stats, cnFiles, jpFiles, runVars, gwVars, fnVars>>

\* The words a response may name: the first and the last word asked for,
\* the first word beyond the cap, and a word not asked for.
ResponseWords ==
    {request.words[1], request.words[Len(request.words)], Tegami}
        \cup (IF Len(intersection) > Len(request.words)
              THEN {intersection[Len(request.words) + 1]} ELSE {})

\* The entries a response may hold: the first word with every type, and
\* every word with one type.
ResponseEntries ==
    [word : {request.words[1]}, type : HomographType \cup {OtherType}]
        \cup [word : ResponseWords, type : {"DIFFERENT"}]

\* The gateway answers with JSON that parses to a list of entries, or with
\* no text (results = []): lines 335-339 of StatsCard.tsx, then lines
\* 129-137.  findSentence is a function of its arguments, so each word's
\* excerpts are computed once for all the answers.
gatewayAnswers ==
    /\ pc = "analyzeHomographs"
    /\ \E cnSentence \in {[w \in ResponseWords |-> findSentence(cnText, w)]},
          jpSentence \in {[w \in ResponseWords |-> findSentence(jpText, w)]} :
       \E n \in 0..MaxResp : \E results \in [1..n -> ResponseEntries] :
        /\ response' = [kind |-> "entries", entries |-> results, message |-> null]
        /\ data' = enrich(results, cnSentence, jpSentence)
        /\ stats' = [stats EXCEPT !.processedCount = Len(results)]
    /\ status' = "COMPLETE"
    /\ pc' = "returned"
    /\ inFlight' = inFlight - 1
    /\ UNCHANGED <<errorMsg, cnFiles, jpFiles, runVars, request, fnVars>>

\* What goes wrong inside the try of analyzeHomographs: generateContent
\* rejects (transport, quota), or JSON.parse throws on the response's text.
GatewayFailures ==
    {[kind |-> "throws", entries |-> <<>>, message |-> NetworkErrorMsg],
     [kind |-> "unparseable", entries |-> <<>>, message |-> SyntaxErrorMsg]}

\* generateContent rejects or JSON.parse throws: the catch of StatsCard.tsx
\* lines 340-343 logs the error and throws a new one with a fixed message,
\* and the catch of lines 139-143 reports that one.
gatewayFails ==
    /\ pc = "analyzeHomographs"
    /\ response' \in GatewayFailures
    /\ errorMsg' = GeminiErrorMsg
    /\ status' = "ERROR"
    /\ pc' = "caught"
    /\ inFlight' = inFlight - 1
    /\ UNCHANGED <<data, stats, cnFiles, jpFiles, runVars, request, fnVars>>

\* The text parses to JSON that is no array of objects: results.map or
\* item.word throws a TypeError at lines 129-133, caught at lines 139-143.
gatewayAnswersNoList ==
    /\ pc = "analyzeHomographs"
    /\ response' = [kind |-> "nolist", entries |-> <<>>, message |-> TypeErrorMsg]
    /\ errorMsg' = TypeErrorMsg
    /\ status' = "ERROR"
    /\ pc' = "caught"
    /\ inFlight' = inFlight - 1
    /\ UNCHANGED <<data, stats, cnFiles, jpFiles, runVars, request, fnVars>>

\* (changed: reset leaves the result list as it is)
resetKeepsData ==
    /\ status = "COMPLETE"
    /\ status' = "IDLE"
    /\ cnFiles' = noFiles
    /\ jpFiles' = noFiles
    /\ pc' = "idle"
    /\ newRun
    /\ UNCHANGED <<data, errorMsg, stats, inFlight, fnVars>>

\* reset (lines 146-153); its button is rendered in COMPLETE only (line 270).
\* The finished run's locals are gone by now.
reset ==
    /\ status = "COMPLETE"
    /\ status' = "IDLE"
    /\ data' = <<>>
    /\ cnFiles' = noFiles
    /\ jpFiles' = noFiles
    /\ pc' = "idle"
    /\ newRun
    /\ UNCHANGED <<errorMsg, stats, inFlight, fnVars>>

Init ==
    /\ InitApp /\ InitRun /\ InitGateway /\ InitFn
    /\ pc = "idle"
    /\ inFlight = 0

Next ==
    \/ \E files \in CnCorpora : handleFileChange("CN", files)
    \/ \E files \in JpCorpora : handleFileChange("JP", files)
    \/ processFiles
    \/ filesRead
    \/ filesReadFails
    \/ gatewayAnswers
    \/ gatewayFails
    \/ gatewayAnswersNoList
    \/ reset

Spec == Init /\ [][Next]_vars

----------------------------------------------------------------------------
(* Claims about the extractor and the matcher                              *)

Han == 19968..40959

\* text[i..j] is a maximal run of Han characters (0-based, both inclusive)
MaximalRun(s, i, j) ==
    /\ i <= j
    /\ \A k \in i..j : At(s, k) \in Han
    /\ i = 0 \/ At(s, i - 1) \notin Han
    /\ j = Len(s) - 1 \/ At(s, j + 1) \notin Han

\* the maximal runs of at least two characters, as pairs of offsets
LongRuns(s) ==
    {r \in (0..(Len(s) - 1)) \X (0..(Len(s) - 1)) :
        MaximalRun(s, r[1], r[2]) /\ r[2] - r[1] + 1 >= 2}

\* their texts, from the left to the right
RunsInOrder(s) ==
    LET R == LongRuns(s)
    IN  [k \in 1..Cardinality(R) |->
            LET r == CHOOSE r \in R : Cardinality({q \in R : q[1] < r[1]}) = k - 1
            IN  SubSeq(s, r[1] + 1, r[2] + 1)]

\* C1: the matches are the maximal Han runs of length >= 2, each whole and
\* in the order of the text, and the candidate set is the set of their
\* texts: every member has at least two characters, all Han, every such run
\* is a member, and no value is a member twice.
C1_CandidatesAreMaximalRuns ==
    pc = "return" =>
        /\ match(cnText) = RunsInOrder(cnText)
        /\ Range(cnSet) = {SubSeq(cnText, r[1] + 1, r[2] + 1) : r \in LongRuns(cnText)}
        /\ IsSet(cnSet)
        /\ \A w \in Range(cnSet) : Len(w) >= 2 /\ \A k \in 1..Len(w) : w[k] \in Han

\* a lone Han character, a repeated run and a second run: two members
C1_Witness ==
    /\ pc = "return"
    /\ cnText = RunsExample
    /\ cnSet = <<Xuesheng, Xiansheng>>

\* the offset of the first maximal run of s whose text is w
FirstRunOf(s, w) == Least({r[1] : r \in {q \in LongRuns(s) : SubSeq(s, q[1] + 1, q[2] + 1) = w}})

\* C2: the intersection list holds exactly the words of both sets, each
\* once, in the iteration order of the Chinese set, which is the order of
\* the words' first occurrences as runs of the Chinese text; its members
\* are those of the intersection taken the other way round.
C2_IntersectionInOrderOfA ==
    pc = "return" =>
        /\ Range(intersection) = Range(cnSet) \cap Range(jpSet)
        /\ IsSet(intersection)
        /\ \A i, j \in 1..Len(intersection) :
              i < j =>
                /\ \E k, l \in 1..Len(cnSet) :
                      k < l /\ cnSet[k] = intersection[i] /\ cnSet[l] = intersection[j]
                /\ FirstRunOf(cnText, intersection[i]) < FirstRunOf(cnText, intersection[j])
        /\ Range(intersection) = Range(Intersect(jpSet, cnSet))

\* two shared words that the Japanese text has in the other order, and a
\* Chinese word the Japanese text lacks
C2_Witness ==
    /\ pc = "return"
    /\ Len(intersection) = 2
    /\ Len(cnSet) = 3
    /\ Intersect(jpSet, cnSet) = <<intersection[2], intersection[1]>>

----------------------------------------------------------------------------
(* Claims about findSentence                                               *)

SentenceEnd == {12290, 65281, 65311, 8230, 10, 33, 63}

Occurrences(s, w) ==
    {i \in 0..(Len(s) - Len(w)) : SubSeq(s, i + 1, i + Len(w)) = w}

\* s: the least offset within 100 of i with no delimiter between it and i
SpanStart(s, i) ==
    Least({k \in 0..i : i - k <= 100 /\ \A j \in k..(i - 1) : At(s, j) \notin SentenceEnd})

\* e: the first delimiter at or after i within 150, else the end of the
\* text or i + 150
SpanEnd(s, i) ==
    LET D == {d \in i..(Len(s) - 1) : At(s, d) \in SentenceEnd /\ d - i <= 150}
    IN  IF D # {} THEN Least(D) ELSE Min(Len(s), i + 150)

\* text[a..b], both inclusive, as far as the text goes
Inclusive(s, a, b) == SubSeq(s, a + 1, Min(b + 1, Len(s)))

\* the example of C6: the call findSentence(LocExample, ke xue) has returned
C6_Case == pc = "return" /\ text = LocExample /\ word = Kexue

\* C6 as claimed: the forward scan stops at the fullwidth comma (offset 14)
\* and the excerpt ends with it.
C6_StopsAtComma ==
    C6_Case =>
        /\ start = 3
        /\ end = 14
        /\ sentence = SubSeq(LocExample, 4, 15)

\* C6 as amended: the backward scan stops right after the first full stop
\* (offset 3); the comma is no delimiter, so the forward scan goes on to the
\* next full stop (offset 20) and the excerpt is the whole sentence.
C6_StopsAtFullStop ==
    C6_Case =>
        /\ start = 3
        /\ end = 20
        /\ sentence = SubSeq(LocExample, 4, 21)

C6_Witness == C6_Case /\ index = 5 /\ Len(sentence) = 18

\* C7: the first occurrence is the one used; start is s, end is e, and the
\* result is text[s..e] cleaned up.
C7_SpanBounds ==
    (pc = "return" /\ Occurrences(text, word) # {}) =>
        /\ index = Least(Occurrences(text, word))
        /\ start = SpanStart(text, index)
        /\ end = SpanEnd(text, index)
        /\ sentence = cleanUp(Inclusive(text, start, end))

\* both caps cut the span, inside the text, and the word occurs again later
C7_Witness ==
    /\ pc = "return"
    /\ Cardinality(Occurrences(text, word)) > 1
    /\ start = index - 100 /\ start > 0
    /\ end = index + 150 /\ end < Len(text) - 1
    /\ At(text, end) \notin SentenceEnd

\* C8: the span is at most 251 characters long and the result no longer
\* than the span.
C8_SpanAtMost251 ==
    (pc = "return" /\ index # -1) =>
        /\ Len(Inclusive(text, start, end)) <= 251
        /\ Len(sentence) <= Len(Inclusive(text, start, end))

\* a span of exactly 251 characters around a word longer than 150
C8_Witness ==
    /\ pc = "return"
    /\ index # -1
    /\ Len(word) > 150
    /\ Len(Inclusive(text, start, end)) = 251

----------------------------------------------------------------------------
(* Claims about the pipeline                                               *)

\* the run in flight or last finished has extracted its candidates
Extracted == pc \in {"analyzeHomographs", "returned"} \/ response.kind # "none"

\* the texts of the maximal Han runs of at least two characters of s
RunTexts(s) ==
    LET starts == {i \in 0..(Len(s) - 1) :
                      At(s, i) \in Han /\ (i = 0 \/ At(s, i - 1) \notin Han)}
        ends == {j \in 0..(Len(s) - 1) :
                      At(s, j) \in Han /\ (j = Len(s) - 1 \/ At(s, j + 1) \notin Han)}
    IN  UNION {{SubSeq(s, i + 1, j + 1) :
                    j \in {e \in ends : e > i /\ \A k \in i..e : At(s, k) \in Han}} :
               i \in starts}

\* C3: no request holds more than 50 words; when the intersection has more
\* than 50, the request is its first 50 in order, and intersectionCount is
\* the length of the whole intersection.
C3_RequestIsFirst50 ==
    /\ Len(request.words) <= 50
    /\ (request.sent /\ Len(intersection) > 50) =>
          /\ Len(request.words) = 50
          /\ \A k \in 1..50 : request.words[k] = intersection[k]
          /\ stats.intersectionCount = Len(intersection)
          /\ stats.intersectionCount = Cardinality(RunTexts(cnText) \cap RunTexts(jpText))

\* a finished run whose intersection had 52 words
C3_Witness ==
    /\ status = "COMPLETE"
    /\ request.sent
    /\ Len(intersection) = 52
    /\ Len(request.words) = 50
    /\ stats.intersectionCount = 52

\* C4: the word of every published entry is a member of both candidate
\* sets of its run.
C4_DataWordsAreShared ==
    \A k \in 1..Len(data) :
        data[k].word \in Range(cnSet) /\ data[k].word \in Range(jpSet)

\* the example of C5: the texts of a run are the two example texts
C5_Case == Extracted /\ cnText = CnExample /\ jpText = JpExample

\* C5 as claimed: four Chinese candidates, a shared one, a request for it.
C5_OneSharedWord ==
    C5_Case =>
        /\ Range(cnSet) = {SubSeq(CnExample, 3, 6), SubSeq(CnExample, 8, 9),
                           SubSeq(CnExample, 10, 11), Kexue}
        /\ Range(intersection) = {Kexue}
        /\ stats.intersectionCount = 1
        /\ request = [sent |-> TRUE, words |-> <<Kexue>>]

\* C5 as amended: the Chinese text has two Han runs, the eleven characters
\* before the comma and the five after it; the Japanese candidates are the
\* four runs between the kana; no word is shared, intersectionCount is 0
\* and the gateway is not called.
C5_NoSharedWord ==
    C5_Case =>
        /\ cnSet = <<SubSeq(CnExample, 1, 11), SubSeq(CnExample, 13, 17)>>
        /\ jpSet = <<Kexue, Tegami, SubSeq(JpExample, 10, 11), SubSeq(JpExample, 18, 19)>>
        /\ intersection = <<>>
        /\ stats.cnWordCount = 2 /\ stats.jpWordCount = 4
        /\ stats.intersectionCount = 0
        /\ ~request.sent
        /\ status = "IDLE" /\ errorMsg = NoIntersectionMsg

C5_Witness == C5_Case /\ pc = "returned" /\ Len(cnSet) = 2

\* C9: when the gateway has answered with a list, the run is COMPLETE with
\* one entry per answer, and the source sentence of a text in which the
\* entry's word does not occur is absent.
C9_AbsentSentenceCompletes ==
    response.kind = "entries" =>
        /\ status = "COMPLETE"
        /\ Len(data) = Len(response.entries)
        /\ \A k \in 1..Len(data) :
              /\ data[k].word = response.entries[k].word
              /\ Occurrences(cnText, data[k].word) = {}
                    => data[k].source_cn_sentence = undefined
              /\ Occurrences(jpText, data[k].word) = {}
                    => data[k].source_jp_sentence = undefined

\* a finished run with an entry whose word is in the Japanese text only
C9_Witness ==
    /\ status = "COMPLETE"
    /\ \E k \in 1..Len(data) :
          /\ data[k].source_cn_sentence = undefined
          /\ data[k].source_jp_sentence # undefined

\* C10: a run whose texts share no Han run of length >= 2 is back in IDLE
\* with the message, has made no request and got no answer, and its
\* processedCount is 0.
C10_NoIntersectionHalts ==
    (Extracted /\ RunTexts(cnText) \cap RunTexts(jpText) = {}) =>
        /\ status = "IDLE"
        /\ errorMsg = NoIntersectionMsg
        /\ ~request.sent
        /\ response.kind = "none"
        /\ stats.processedCount = 0
        /\ stats.intersectionCount = 0
        /\ data = <<>>

\* such a run, of texts that both have candidates
C10_Witness ==
    /\ pc = "returned"
    /\ status = "IDLE"
    /\ cnSet # <<>> /\ jpSet # <<>>
    /\ intersection = <<>>

----------------------------------------------------------------------------
(* Claims about failures and the gateway's answers                         *)

\* the classification call of the run has failed: it threw or failed in
\* transport, or its data did not parse or was no list of entries
GatewayFailed == response.kind \in {"throws", "unparseable", "nolist"}

\* C11: a run whose classification call failed is in ERROR, the message
\* shown is the message of the failure, the result list and processedCount
\* are as they were (empty, 0), and the start button is shown and enabled.
C11_FailureMessageShown ==
    GatewayFailed =>
        /\ status = "ERROR"
        /\ errorMsg = response.message
        /\ data = <<>>
        /\ stats.processedCount = 0
        /\ UploadShown /\ cnFiles # noFiles /\ jpFiles # noFiles

\* C12: no published entry has a type outside SAME, RELATED, DIFFERENT: a
\* response with such an entry is published without it, or ends in ERROR.
C12_PublishedTypesAreEnumerated ==
    /\ \A k \in 1..Len(data) : data[k].type \in HomographType
    /\ (\E k \in 1..Len(response.entries) : response.entries[k].type \notin HomographType)
          => \/ status = "ERROR"
             \/ Len(data) < Len(response.entries)

----------------------------------------------------------------------------
(* Claims about the runs in flight                                         *)

\* the step starts a run, is a reset, selects files
StartStep == inFlight' > inFlight
ResetStep == cnFiles # noFiles /\ cnFiles' = noFiles
SelectStep == (cnFiles' # cnFiles \/ jpFiles' # jpFiles) /\ ~ResetStep

\* C13: after every step at most one run is in flight, and while one is the
\* status is READING_FILES or ANALYZING; a run starts only from IDLE or
\* ERROR with none in flight, a reset happens only in COMPLETE with none in
\* flight, files are selected only with none in flight, and a step that
\* writes status, stats or the result list is the start of a run, a reset,
\* or a step of the one run in flight, which is the last one started.
C13_OneRunInFlight ==
    [][/\ inFlight' \in {0, 1}
       /\ inFlight' = 1 => status' \in {"READING_FILES", "ANALYZING"}
       /\ inFlight' = 1 <=> pc' \in {"readAllFiles", "analyzeHomographs"}
       /\ StartStep => status \in {"IDLE", "ERROR"} /\ inFlight = 0
       /\ ResetStep => status = "COMPLETE" /\ inFlight = 0
       /\ SelectStep => status \in {"IDLE", "ERROR"} /\ inFlight = 0
       /\ (status' # status \/ stats' # stats \/ data' # data)
             => StartStep \/ ResetStep \/ inFlight = 1
      ]_vars

\* a run in flight that was started after an earlier run had completed and
\* been reset (the counts of the earlier run are still in stats)
C13_Witness ==
    /\ inFlight = 1
    /\ status = "READING_FILES"
    /\ stats.processedCount > 0

----------------------------------------------------------------------------
(* Claims about the excerpt and the word                                   *)

\* a candidate: a Han run of at least two characters
IsCandidate(w) == Len(w) >= 2 /\ \A k \in 1..Len(w) : w[k] \in Han

\* C14: the excerpt of a candidate word that occurs in the text contains
\* the whole word.
C14_ExcerptHoldsWord ==
    (pc = "return" /\ IsCandidate(word) /\ Occurrences(text, word) # {}) =>
        /\ sentence # undefined
        /\ Occurrences(sentence, word) # {}

----------------------------------------------------------------------------
(* Claims about the published result                                       *)

\* C15: the result list is non-empty only in COMPLETE; in COMPLETE it is
\* the answer of the run started last (the one whose texts, request and
\* response are held), entry by entry with that run's excerpts, and
\* processedCount is its length, the other counts being that run's too.
C15_DataOnlyWhileComplete ==
    /\ data # <<>> => status = "COMPLETE"
    /\ status = "COMPLETE" =>
          /\ stats.processedCount = Len(data)
          /\ inFlight = 0
          /\ request.sent /\ response.kind = "entries"
          /\ Len(data) = Len(response.entries)
          /\ \A k \in 1..Len(data) :
                /\ data[k].word = response.entries[k].word
                /\ data[k].type = response.entries[k].type
                /\ data[k].source_cn_sentence = findSentence(cnText, data[k].word)
                /\ data[k].source_jp_sentence = findSentence(jpText, data[k].word)
          /\ stats.cnWordCount = Len(cnSet)
          /\ stats.jpWordCount = Len(jpSet)
          /\ stats.intersectionCount = Len(intersection)

\* a completed run that published one entry for several shared words
C15_Witness ==
    /\ status = "COMPLETE"
    /\ Len(data) = 1
    /\ stats.processedCount = 1
    /\ stats.intersectionCount > 1

=============================================================================
